---- MODULE Spec2Model ----
(***************************************************************************)
(* Raw-Alchemy: the per-image pipeline (core.process_image), the metering  *)
(* gains of utils.py, and the two batch entry points                       *)
(* (orchestrator.process_path and the command-line main).                  *)
(*                                                                         *)
(* Fixed point: image samples and image statistics are integers in units   *)
(* of 1e-6 (ONE = 1.0); gains are integers in units of 1e-2 (GAIN_ONE =    *)
(* 1.0).  An image is a short sequence of gray pixels (R = G = B), each    *)
(* held as its one sample value.                                           *)
(***************************************************************************)
EXTENDS Integers, Sequences, FiniteSets, TLC

VARIABLES
    entry,      \* which entry point was invoked: "process_path" or "main"
    cfg,        \* the configuration surface handed to the entry point
    input,      \* the input path: a file of the universe or a directory
    outputKind, \* what the output path currently is: "dir", "file", "absent"
    orch,       \* position of the entry point
    found,      \* raw_files: the discovered work units
    collected,  \* units whose result the entry point has consumed
    olog,       \* messages the entry point has logged
    raised,     \* the exception the entry point ended with, or "none"
    unit,       \* per file: the state of its process_image run
    meter       \* a stand-alone call of one metering function

vars == <<entry, cfg, input, outputKind, orch, found, collected, olog, raised,
          unit, meter>>

(***************************************************************************)
(* Bounds of the model.                                                    *)
(***************************************************************************)
MaxFiles == 2   \* most files an input directory holds
MaxJobs  == 2   \* largest worker-pool size tried

(***************************************************************************)
(* Fixed-point scales and the program's numeric constants.                 *)
(***************************************************************************)
ONE           == 1000000    \* 1.0 as a sample / statistic (resolution 1e-6)
GAIN_ONE      == 100        \* 1.0 as a gain
EPS           == 1          \* the 1e-6 floors and thresholds
DARK_LIMIT    == 100        \* auto_expose_linear: avg_lum < 0.0001
TARGET_GRAY   == 180000     \* target_gray = 0.18
TARGET_HIGH   == 900000     \* target_high = 0.9
MAX_ALLOWED_PEAK == 6000000 \* max_allowed_peak = 6.0
LINEAR_MIN    == 100        \* np.clip(gain, 1.0, 50.0)
LINEAR_MAX    == 5000
WIDE_MIN      == 10         \* np.clip(gain, 0.1, 100.0)
WIDE_MAX      == 10000
PIVOT         == 180000     \* contrast pivot 0.18
CONTRAST_PCT  == 110        \* contrast = 1.1
WHITE16       == 65535      \* img * 65535
WRAP16        == 65536      \* astype(np.uint16)

Max(a, b) == IF a >= b THEN a ELSE b
Min(a, b) == IF a <= b THEN a ELSE b

\* np.clip(x, lo, hi)
Clip(x, lo, hi) == Max(lo, Min(x, hi))

(***************************************************************************)
(* core.py tables.                                                         *)
(***************************************************************************)
\* LOG_TO_WORKING_SPACE.get(log_space): "" stands for None.
LOG_TO_WORKING_SPACE(ls) ==
    CASE ls = "S-Log3"      -> "S-Gamut3"
      [] ls = "S-Log3.Cine" -> "S-Gamut3.Cine"
      [] ls = "F-Log2C"     -> "F-Gamut C"
      [] OTHER              -> ""

\* LOG_ENCODING_MAP.get(log_space, log_space)
LOG_ENCODING_MAP(ls) ==
    CASE ls = "S-Log3.Cine" -> "S-Log3"
      [] ls = "F-Log2C"     -> "F-Log2"
      [] OTHER              -> ls

METERING_MODES == {"average", "center-weighted", "highlight-safe", "hybrid"}

\* SUPPORTED_RAW_EXTENSIONS (lowercase), the members the file universe uses.
SUPPORTED_RAW_EXTENSIONS == {".dng", ".cr2", ".nef", ".arw", ".raf"}

(***************************************************************************)
(* The metering gains, utils.py.  Each takes the image statistic(s) numpy  *)
(* computed (geometric-mean luminance, weighted mean luminance, a          *)
(* percentile of max(R,G,B)), in units of 1e-6, and gives the gain in      *)
(* units of 1e-2.                                                          *)
(***************************************************************************)
\* auto_expose_linear with its final np.clip left out.
auto_expose_linear_gain_unclamped(avg_lum) ==
    IF avg_lum < DARK_LIMIT THEN GAIN_ONE
    ELSE (TARGET_GRAY * GAIN_ONE) \div avg_lum

auto_expose_linear_gain(avg_lum) ==
    LET gain == IF avg_lum < DARK_LIMIT THEN GAIN_ONE
                ELSE (TARGET_GRAY * GAIN_ONE) \div avg_lum
    IN  Clip(gain, LINEAR_MIN, LINEAR_MAX)

\* auto_expose_linear's local `gain` before its np.clip: 1.0 for an image
\* darker than 0.0001, else target_gray / avg_lum.
auto_expose_linear_base_gain(avg_lum) ==
    IF avg_lum < DARK_LIMIT THEN GAIN_ONE
    ELSE (TARGET_GRAY * GAIN_ONE) \div avg_lum

auto_expose_center_weighted_gain(weighted_avg_lum) ==
    LET gain == IF weighted_avg_lum < EPS THEN GAIN_ONE
                ELSE (TARGET_GRAY * GAIN_ONE) \div weighted_avg_lum
    IN  Clip(gain, WIDE_MIN, WIDE_MAX)

auto_expose_highlight_safe_gain(high_percentile) ==
    IF high_percentile < EPS THEN GAIN_ONE
    ELSE (TARGET_HIGH * GAIN_ONE) \div high_percentile

\* hybrid's base_gain = target_gray / (avg_lum + 1e-6)
hybrid_base_gain(avg_lum) == (TARGET_GRAY * GAIN_ONE) \div (avg_lum + EPS)

\* potential_peak > max_allowed_peak, i.e. p99 * base_gain > 6.0.  For
\* integers p99 > 0 this is base_gain > floor(6.0 / p99); the product itself
\* is not formed, to stay inside 32-bit integers.
hybrid_peak_exceeded(p99, base_gain) ==
    /\ p99 > 0
    /\ base_gain > (MAX_ALLOWED_PEAK * GAIN_ONE) \div p99

auto_expose_hybrid_gain(avg_lum, p99) ==
    LET base_gain == hybrid_base_gain(avg_lum)
        gain == IF hybrid_peak_exceeded(p99, base_gain)
                THEN (MAX_ALLOWED_PEAK * GAIN_ONE) \div p99
                ELSE base_gain
    IN  Clip(gain, WIDE_MIN, WIDE_MAX)

\* The metering function process_image calls for a metering mode.
MeteringFunction(mode) ==
    CASE mode = "center-weighted" -> "auto_expose_center_weighted"
      [] mode = "highlight-safe"  -> "auto_expose_highlight_safe"
      [] mode = "average"         -> "auto_expose_linear"
      [] OTHER                    -> "auto_expose_hybrid"

\* The gain the called metering function computes from the statistics st.
MeteredGain(fn, st) ==
    CASE fn = "auto_expose_center_weighted" ->
             auto_expose_center_weighted_gain(st.weighted_avg_lum)
      [] fn = "auto_expose_highlight_safe" ->
             auto_expose_highlight_safe_gain(st.p995)
      [] fn = "auto_expose_linear" ->
             auto_expose_linear_gain(st.avg_lum)
      [] OTHER ->
             auto_expose_hybrid_gain(st.avg_lum, st.p99)

(***************************************************************************)
(* Element-wise image operations.                                          *)
(***************************************************************************)
\* v * gain, the product split so that it stays inside 32-bit integers.
MulGain(v, gain) ==
    (v \div GAIN_ONE) * gain + ((v % GAIN_ONE) * gain) \div GAIN_ONE

\* `img_linear * gain`, the last line of every metering function
apply_gain(img, gain) == [i \in DOMAIN img |-> MulGain(img[i], gain)]

\* utils.apply_gain_inplace(img, gain): every sample multiplied by the gain
apply_gain_inplace(img, gain) == [i \in DOMAIN img |-> MulGain(img[i], gain)]

\* 2.0 ** exposure for whole stops, as a gain.
Pow2Gain(stops) ==
    CASE stops = 0  -> GAIN_ONE
      [] stops = 1  -> 2 * GAIN_ONE
      [] stops = 2  -> 4 * GAIN_ONE
      [] stops = 6  -> 64 * GAIN_ONE
      [] stops = -1 -> GAIN_ONE \div 2
      [] stops = -2 -> GAIN_ONE \div 4

\* utils.apply_saturation_and_contrast on a gray pixel: lum equals the sample
\* (the Rec.709 weights sum to 1), so saturation leaves it, and contrast
\* stretches it about the pivot; then np.maximum(., 0.0).
apply_saturation_and_contrast(img) ==
    [i \in DOMAIN img |->
        Max(((img[i] - PIVOT) * (CONTRAST_PCT \div 10)) \div 10 + PIVOT, 0)]

\* utils.apply_matrix_inplace(img, M) with the RGB-to-RGB matrix M: a neutral
\* pixel stays neutral (white maps to white), so a gray sample keeps its value.
apply_matrix_inplace(img) == img

\* np.maximum(img, 1e-6, out=img)
floor_eps(img) == [i \in DOMAIN img |-> Max(img[i], EPS)]

\* colour.cctf_encoding(img, function='S-Log3'), quantised: the value of the
\* curve at the largest tabulated point not above the sample.
SLog3(v) ==
    CASE v < 11250     -> 92864
      [] v < 90000     -> 167360
      [] v < 180000    -> 338000
      [] v < 360000    -> 410557
      [] v < 1000000   -> 485000
      [] v < 2000000   -> 596027
      [] v < 6000000   -> 672400
      [] v < 38400000  -> 794000
      [] v < 64000000  -> 1000000
      [] v < 100000000 -> 1056640
      [] OTHER         -> 1106000

cctf_encoding(img, function) ==
    CASE function = "S-Log3" -> [i \in DOMAIN img |-> SLog3(img[i])]

\* What the configured LUT maps a sample to (a contrast LUT whose output
\* leaves [0, 1] at both ends).
LutMap(v) == 2 * v - 600000

\* np.clip(img, 0.0, 1.0, out=img)
clip01(img) == [i \in DOMAIN img |-> Clip(img[i], 0, ONE)]

\* (img * 65535).astype(np.uint16): the conversion wraps modulo 2^16.
ToUint16(v) == (((v \div 1000) * WHITE16) \div 1000) % WRAP16

encode16(img) == [i \in DOMAIN img |-> ToUint16(img[i])]

(***************************************************************************)
(* The files the model knows.  A file's content fixes what the RAW decoder *)
(* does with it: "gray", "black" and "contrast" decode to an image,        *)
(* "corrupt" opens and then fails in postprocess, "hang" never returns     *)
(* from postprocess, "notraw" is refused by rawpy.imread.                  *)
(***************************************************************************)
FileUniverse ==
    { [stem |-> "a",     ext |-> ".dng", content |-> "gray"],
      [stem |-> "a",     ext |-> ".cr2", content |-> "black"],
      [stem |-> "b",     ext |-> ".NEF", content |-> "contrast"],
      [stem |-> "c",     ext |-> ".arw", content |-> "corrupt"],
      [stem |-> "d",     ext |-> ".raf", content |-> "hang"],
      [stem |-> "notes", ext |-> ".txt", content |-> "notraw"] }

\* str.lower() and str.upper() on the extensions of the universe.
Lower(ext) == IF ext = ".NEF" THEN ".nef" ELSE ext
Upper(ext) ==
    CASE ext = ".dng" -> ".DNG"
      [] ext = ".cr2" -> ".CR2"
      [] ext = ".nef" -> ".NEF"
      [] ext = ".arw" -> ".ARW"
      [] ext = ".raf" -> ".RAF"
      [] OTHER        -> ext

\* process_path: f.lower().endswith(ext) for some supported ext.
ListdirMatches(dir) == {f \in dir : Lower(f.ext) \in SUPPORTED_RAW_EXTENSIONS}

\* main: glob("*" + ext) and glob("*" + ext.upper()) for every supported ext.
GlobMatches(dir) ==
    {f \in dir : \E e \in SUPPORTED_RAW_EXTENSIONS : f.ext = e \/ f.ext = Upper(e)}

\* os.path.join(output_path, splitext(filename)[0] + output_ext), with the
\* default output_format 'tif' of process_path and the fixed ".tif" of main.
OutputPath(f) == <<"output_path", f.stem, ".tif">>

\* Single file: output_path as given, or inside it when it is a directory.
FinalOutputPath(f, kind) == IF kind = "dir" THEN OutputPath(f) ELSE <<"output_path">>

\* raw.postprocess(...).astype(np.float32) / 65535.0
DecodedImage(content) ==
    CASE content = "gray"     -> <<180000, 180000>>
      [] content = "black"    -> <<0, 0>>
      [] content = "contrast" -> <<20000, 1000000>>

\* What numpy computes on a decoded image: exp(mean(log(Y + 1e-6))), the
\* Gaussian-weighted mean of Y, and the 99.5th and 99th percentiles of
\* max(R, G, B).  For a gray pixel the luminance Y is the sample.
ImageStats(img) ==
    CASE img = <<180000, 180000>> ->
             [avg_lum |-> 180001, weighted_avg_lum |-> 180000,
              p995 |-> 180000, p99 |-> 180000]
      [] img = <<0, 0>> ->
             [avg_lum |-> 1, weighted_avg_lum |-> 0, p995 |-> 0, p99 |-> 0]
      [] img = <<20000, 1000000>> ->
             [avg_lum |-> 141425, weighted_avg_lum |-> 883200,
              p995 |-> 995100, p99 |-> 990200]

\* What colour.read_LUT and the LUT's application do for each LUT file:
\* whether the file reads, whether it is a LUT3D, whether the apply step
\* returns, whether the clamp after it returns.
LutBehaviour(lut_path) ==
    CASE lut_path = "look3d.cube"   -> [reads |-> TRUE,  is3d |-> TRUE,  applies |-> TRUE,  clamps |-> TRUE]
      [] lut_path = "curve1d.cube"  -> [reads |-> TRUE,  is3d |-> FALSE, applies |-> TRUE,  clamps |-> TRUE]
      [] lut_path = "garbled.cube"  -> [reads |-> FALSE, is3d |-> FALSE, applies |-> FALSE, clamps |-> FALSE]
      [] lut_path = "bad3d.cube"    -> [reads |-> TRUE,  is3d |-> TRUE,  applies |-> FALSE, clamps |-> TRUE]
      [] lut_path = "bad1d.cube"    -> [reads |-> TRUE,  is3d |-> FALSE, applies |-> FALSE, clamps |-> TRUE]
      [] lut_path = "noclamp3d.cube" -> [reads |-> TRUE, is3d |-> TRUE,  applies |-> TRUE,  clamps |-> FALSE]
      [] lut_path = "noclamp1d.cube" -> [reads |-> TRUE, is3d |-> FALSE, applies |-> TRUE,  clamps |-> FALSE]

LutPaths == {"look3d.cube", "curve1d.cube", "garbled.cube", "bad3d.cube",
             "bad1d.cube", "noclamp3d.cube", "noclamp1d.cube"}

\* utils.apply_lut_inplace(img, table, lo, hi) and lut.apply(img)
apply_lut_inplace(img) == [i \in DOMAIN img |-> LutMap(img[i])]

(***************************************************************************)
(* One process_image run.                                                  *)
(***************************************************************************)
IdleUnit ==
    [pc       |-> "idle",  \* the stage to run next
     img      |-> <<>>,    \* the working image
     hist     |-> <<>>,    \* the stages entered so far, in order
     exif     |-> {},      \* exif_data: the metadata keys extracted
     metered  |-> {},      \* the metering functions invoked
     gain     |-> 0,       \* the exposure gain applied
     exposed  |-> <<>>,    \* the image as it left the exposure step
     lensIn   |-> <<>>,    \* the image as it entered lens correction
     lutIn    |-> <<>>,    \* the image as it entered the LUT step
     logs     |-> {},      \* what _log and the loggers have reported
     err      |-> "none",  \* the exception the run raised
     out      |-> <<>>,    \* the samples written to the output file
     path     |-> <<>>,    \* output_path, the file the run writes
     reported |-> 0]       \* exception reports naming this unit

\* The steps with the boost moved behind the gamut transform.
StageAfter_boost_late(stage, c) ==
    CASE stage = "Imread"          -> "ExtractMetadata"
      [] stage = "ExtractMetadata" -> "Decode"
      [] stage = "Decode"          -> "Expose"
      [] stage = "Expose"          -> IF c.lens_correct THEN "LensCorrect" ELSE "LogSpaceLookup"
      [] stage = "LensCorrect"     -> "LogSpaceLookup"
      [] stage = "LogSpaceLookup"  -> "GamutTransform"
      [] stage = "GamutTransform"  -> "Boost"
      [] stage = "Boost"           -> "CurveEncode"
      [] stage = "CurveEncode"     -> IF c.lut_path # "" THEN "LUT" ELSE "Encode"
      [] stage = "LUT"             -> "Encode"
      [] stage = "Encode"          -> "Done"

\* The order of the steps in process_image: the step after `stage`.
StageAfter(stage, c) ==
    CASE stage = "Imread"          -> "ExtractMetadata"
      [] stage = "ExtractMetadata" -> "Decode"
      [] stage = "Decode"          -> "Expose"
      [] stage = "Expose"          -> IF c.lens_correct THEN "LensCorrect" ELSE "Boost"
      [] stage = "LensCorrect"     -> "Boost"
      [] stage = "Boost"           -> "LogSpaceLookup"
      [] stage = "LogSpaceLookup"  -> "GamutTransform"
      [] stage = "GamutTransform"  -> "CurveEncode"
      [] stage = "CurveEncode"     -> IF c.lut_path # "" THEN "LUT" ELSE "Encode"
      [] stage = "LUT"             -> "Encode"
      [] stage = "Encode"          -> "Done"

\* The step `stage` of unit r returned.
Advance(r, stage) ==
    [r EXCEPT !.pc = StageAfter(stage, cfg), !.hist = Append(@, stage)]

\* The step `stage` of unit r raised e, which nothing in process_image catches.
Raise(r, stage, e) ==
    [r EXCEPT !.pc = "Failed", !.hist = Append(@, stage), !.err = e]

UnitFrame ==
    UNCHANGED <<entry, cfg, input, outputKind, orch, found, collected, olog, raised,
                meter>>

\* `if exposure:` in place of `if exposure is not None:`: 0 stops count as
\* no manual exposure.
ManualExposure_truthy(exposure) == exposure # <<>> /\ exposure[1] # 0

\* `exposure is not None`; the optional value is a sequence of length <= 1.
ManualExposure(exposure) == exposure # <<>>

\* rawpy.imread(raw_path)
Imread(u) ==
    /\ unit[u].pc = "Imread"
    /\ LET r == [unit[u] EXCEPT !.logs = @ \cup {"Processing", "Step 1"}]
       IN  unit' = [unit EXCEPT ![u] =
                IF u.content = "notraw"
                THEN Raise(r, "Imread", "LibRawError")
                ELSE Advance(r, "Imread")]
    /\ UnitFrame

\* utils.extract_lens_exif(raw_path): open(raw_path, 'rb') and read the tags;
\* any exception is logged and the result is what was gathered so far.  `arg`
\* is what the caller passed: a path, or something open() does not take.
extract_lens_exif(arg, tags) ==
    IF arg = "path"
    THEN [exif |-> tags, error |-> FALSE]
    ELSE [exif |-> {},   error |-> TRUE]

\* The metadata a file carries.
ExifTags(f) ==
    IF f.content = "black"
    THEN {"camera_maker", "camera_model", "focal_length", "aperture"}
    ELSE {"camera_maker", "camera_model", "lens_maker", "lens_model",
          "focal_length", "aperture"}

\* Step 1.1: exif_data = utils.extract_lens_exif(raw, logger=_log), where raw
\* is the open RawPy object.
ExtractMetadata(u) ==
    /\ unit[u].pc = "ExtractMetadata"
    /\ LET got == extract_lens_exif("RawPy", ExifTags(u))
           r   == [unit[u] EXCEPT
                      !.exif = got.exif,
                      !.logs = IF got.error THEN @ \cup {"exif_error"} ELSE @]
       IN  unit' = [unit EXCEPT ![u] = Advance(r, "ExtractMetadata")]
    /\ UnitFrame

\* Step 1.2: raw.postprocess(...), scaled to float32.  On a "hang" file the
\* call never returns: the step is never taken.
Decode(u) ==
    /\ unit[u].pc = "Decode"
    /\ u.content # "hang"
    /\ unit' = [unit EXCEPT ![u] =
            IF u.content = "corrupt"
            THEN Raise(unit[u], "Decode", "LibRawError")
            ELSE Advance([unit[u] EXCEPT !.img = DecodedImage(u.content)], "Decode")]
    /\ UnitFrame

\* Step 2: manual gain, or the metering function of the metering mode.
Expose(u) ==
    /\ unit[u].pc = "Expose"
    /\ LET r == unit[u]
           fn == MeteringFunction(cfg.metering_mode)
           gain == IF ManualExposure(cfg.exposure)
                   THEN Pow2Gain(cfg.exposure[1])
                   ELSE MeteredGain(fn, ImageStats(r.img))
           img2 == IF ManualExposure(cfg.exposure)
                   THEN apply_gain_inplace(r.img, gain)
                   ELSE apply_gain(r.img, gain)
       IN  unit' = [unit EXCEPT ![u] = Advance(
                [r EXCEPT !.img = img2, !.exposed = img2, !.gain = gain,
                          !.metered = IF ManualExposure(cfg.exposure) THEN {} ELSE {fn},
                          !.logs = @ \cup {"Step 2"}],
                "Expose")]
    /\ UnitFrame

\* Python's binding of a call's arguments to a signature: every keyword must
\* name a parameter, and every parameter without a default must receive a
\* value, from the leading positional arguments or from a keyword.
CallBinds(nPositional, keywords, params, required) ==
    /\ keywords \subseteq {params[i] : i \in DOMAIN params}
    /\ \A i \in DOMAIN params :
          params[i] \in required => (i <= nPositional \/ params[i] \in keywords)

\* def apply_lens_correction(image, raw_path, camera_maker=None, ...)
LensCorrectionParams ==
    <<"image", "raw_path", "camera_maker", "camera_model", "lens_maker",
      "lens_model", "focal_length", "aperture", "crop_factor",
      "correct_distortion", "correct_tca", "correct_vignetting",
      "custom_db_path", "logger">>

LensCorrectionRequired == {"image", "raw_path"}

\* utils.apply_lens_correction(img, exif_data=..., custom_db_path=..., logger=...)
LensCorrectionCallKeywords == {"exif_data", "custom_db_path", "logger"}

\* lf.apply_lens_correction: what the correction engine returns for an image
\* (a vignetting correction that lifts every sample by a tenth).
lf_apply_lens_correction(image) == [i \in DOMAIN image |-> MulGain(image[i], 110)]

\* The body of utils.apply_lens_correction, given the metadata its own call of
\* extract_lens_exif(raw_path) returned and whether the engine raises:
\* warn and return the image when the camera or lens model, the focal length
\* or the aperture is missing, and when the engine raises.
apply_lens_correction(image, exif, engineRaises) ==
    IF ~("camera_model" \in exif /\ "lens_model" \in exif)
    THEN [image |-> image, logs |-> {"lens_warning_model"}]
    ELSE IF ~("focal_length" \in exif /\ "aperture" \in exif)
    THEN [image |-> image, logs |-> {"lens_warning_focal"}]
    ELSE IF engineRaises
    THEN [image |-> image, logs |-> {"Lens Correction", "lens_error"}]
    ELSE [image |-> lf_apply_lens_correction(image), logs |-> {"Lens Correction"}]

\* Step 3: the call of utils.apply_lens_correction, reached only with
\* lens_correct set.  A call that does not bind raises TypeError before the
\* body runs.
LensCorrect(u) ==
    /\ unit[u].pc = "LensCorrect"
    /\ LET r == [unit[u] EXCEPT !.lensIn = unit[u].img, !.logs = @ \cup {"Step 3"}]
       IN  IF CallBinds(1, LensCorrectionCallKeywords, LensCorrectionParams,
                        LensCorrectionRequired)
           THEN \E engineRaises \in BOOLEAN :
                  LET got == apply_lens_correction(
                                 r.img, extract_lens_exif("path", ExifTags(u)).exif,
                                 engineRaises)
                  IN  unit' = [unit EXCEPT ![u] = Advance(
                          [r EXCEPT !.img = got.image, !.logs = @ \cup got.logs],
                          "LensCorrect")]
           ELSE unit' = [unit EXCEPT ![u] = Raise(r, "LensCorrect", "TypeError")]
    /\ UnitFrame

\* Step 3.5: utils.apply_saturation_and_contrast(img, 1.25, 1.1)
Boost(u) ==
    /\ unit[u].pc = "Boost"
    /\ unit' = [unit EXCEPT ![u] = Advance(
            [unit[u] EXCEPT !.img = apply_saturation_and_contrast(@),
                            !.logs = @ \cup {"Step 3.5"}],
            "Boost")]
    /\ UnitFrame

\* Step 4, first lines: look the log space up; an unknown name raises
\* ValueError("Unknown Log Space").
LogSpaceLookup(u) ==
    /\ unit[u].pc = "LogSpaceLookup"
    /\ unit' = [unit EXCEPT ![u] =
            IF LOG_TO_WORKING_SPACE(cfg.log_space) = ""
            THEN Raise(unit[u], "LogSpaceLookup", "ValueError")
            ELSE Advance([unit[u] EXCEPT !.logs = @ \cup {"Step 4"}], "LogSpaceLookup")]
    /\ UnitFrame

\* Step 4.1: the gamut matrix applied in place, then the 1e-6 floor.
GamutTransform(u) ==
    /\ unit[u].pc = "GamutTransform"
    /\ unit' = [unit EXCEPT ![u] = Advance(
            [unit[u] EXCEPT !.img = floor_eps(apply_matrix_inplace(@))], "GamutTransform")]
    /\ UnitFrame

\* Step 4.2: colour.cctf_encoding(img, function=log_curve_name)
CurveEncode(u) ==
    /\ unit[u].pc = "CurveEncode"
    /\ unit' = [unit EXCEPT ![u] = Advance(
            [unit[u] EXCEPT !.img = cctf_encoding(@, LOG_ENCODING_MAP(cfg.log_space))],
            "CurveEncode")]
    /\ UnitFrame

\* The image the LUT step leaves in `img`, and whether its try block raised.
\* read_LUT raising, or the apply step raising, leaves img as it was; once
\* the apply step has returned, img holds the LUT's output (written in place
\* by apply_lut_inplace, or assigned from lut.apply), and a clamp that raises
\* leaves that.
LutStep(img, lut) ==
    IF ~lut.reads \/ ~lut.applies
    THEN [img |-> img, raised |-> TRUE]
    ELSE IF ~lut.clamps
    THEN [img |-> apply_lut_inplace(img), raised |-> TRUE]
    ELSE [img |-> clip01(apply_lut_inplace(img)), raised |-> FALSE]

\* Step 5: the LUT, reached only with a LUT path; its except clause logs and
\* the run goes on.
LUT(u) ==
    /\ unit[u].pc = "LUT"
    /\ LET lut == LutBehaviour(cfg.lut_path)
           got == LutStep(unit[u].img, lut)
           r   == [unit[u] EXCEPT
                      !.lutIn = unit[u].img,
                      !.img = got.img,
                      !.logs = @ \cup {"Step 5"}
                                 \cup (IF lut.reads /\ ~lut.is3d THEN {"non-3D LUT"} ELSE {})
                                 \cup (IF got.raised THEN {"lut_error"} ELSE {})]
       IN  unit' = [unit EXCEPT ![u] = Advance(r, "LUT")]
    /\ UnitFrame

\* Step 6: tifffile.imwrite(output_path, (img * 65535).astype(np.uint16));
\* the codec may raise (an unwritable output path).
Encode(u) ==
    /\ unit[u].pc = "Encode"
    /\ \E written \in BOOLEAN :
          unit' = [unit EXCEPT ![u] =
              IF written
              THEN Advance([unit[u] EXCEPT !.out = encode16(unit[u].img),
                                           !.logs = @ \cup {"Saving", "Done"}],
                           "Encode")
              ELSE Raise([unit[u] EXCEPT !.logs = @ \cup {"Saving"}], "Encode", "OSError")]
    /\ UnitFrame

\* Any step of the run of unit u.
PipelineStep(u) ==
    \/ Imread(u)
    \/ ExtractMetadata(u)
    \/ Decode(u)
    \/ Expose(u)
    \/ LensCorrect(u)
    \/ Boost(u)
    \/ LogSpaceLookup(u)
    \/ GamutTransform(u)
    \/ CurveEncode(u)
    \/ LUT(u)
    \/ Encode(u)

Finished(u) == unit[u].pc \in {"Done", "Failed"}
Running(u)  == unit[u].pc \notin {"idle", "queued", "Done", "Failed"}

(***************************************************************************)
(* orchestrator.process_path                                               *)
(***************************************************************************)
OrchFrame == UNCHANGED <<entry, cfg, input, meter>>

\* A pool in which one running call holds every worker.
FreeWorker_one_at_a_time == \A f \in found : ~Running(f)

\* A pool worker is idle: fewer than max_workers=jobs submitted calls are
\* being executed.  A call that never returns keeps its worker.
FreeWorker == Cardinality({f \in found : Running(f)}) < cfg.jobs

\* Batch branch up to the submission of every work unit: the output path
\* must be a directory, the listing must hold a supported file.
PP_BatchStart ==
    /\ entry = "process_path" /\ orch = "invoked" /\ input.isdir
    /\ IF outputKind # "dir"
       THEN /\ olog' = olog \cup {"Error: output path must be a directory"}
            /\ orch' = "raised"
            /\ raised' = "ValueError: the output path must be a directory"
            /\ UNCHANGED <<found, unit>>
       ELSE IF ListdirMatches(input.files) = {}
       THEN /\ olog' = olog \cup {"No supported RAW files found"}
            /\ orch' = "raised"
            /\ raised' = "ValueError: No RAW files found"
            /\ UNCHANGED <<found, unit>>
       ELSE /\ found' = ListdirMatches(input.files)
            /\ olog' = olog \cup {"Found RAW files"}
            /\ unit' = [f \in FileUniverse |->
                          IF f \in ListdirMatches(input.files)
                          THEN [IdleUnit EXCEPT !.pc = "queued", !.path = OutputPath(f)]
                          ELSE unit[f]]
            /\ orch' = "collecting"
            /\ UNCHANGED raised
    /\ UNCHANGED <<outputKind, collected>>
    /\ OrchFrame

\* A worker process of the pool takes a submitted call and starts it.
PP_WorkerTake(u) ==
    /\ entry = "process_path" /\ orch = "collecting"
    /\ u \in found /\ unit[u].pc = "queued"
    /\ FreeWorker
    /\ unit' = [unit EXCEPT ![u].pc = "Imread"]
    /\ UNCHANGED <<outputKind, orch, found, collected, olog, raised>>
    /\ OrchFrame

\* The loop without its try statement: future.result() raises the call's
\* exception out of process_path.
PP_Collect_uncaught(u) ==
    /\ entry = "process_path" /\ orch = "collecting"
    /\ u \in found \ collected /\ Finished(u)
    /\ collected' = collected \cup {u}
    /\ orch' = IF unit[u].pc = "Failed" THEN "raised" ELSE orch
    /\ raised' = IF unit[u].pc = "Failed" THEN unit[u].err ELSE raised
    /\ UNCHANGED <<outputKind, found, olog, unit>>
    /\ OrchFrame

\* One turn of `for future in as_completed(futures)`: future.result() of a
\* finished call; its exception is caught and logged with the file name.
PP_Collect(u) ==
    /\ entry = "process_path" /\ orch = "collecting"
    /\ u \in found \ collected /\ Finished(u)
    /\ collected' = collected \cup {u}
    /\ unit' = [unit EXCEPT ![u].reported =
                   IF unit[u].pc = "Failed" THEN @ + 1 ELSE @]
    /\ UNCHANGED <<outputKind, orch, found, olog, raised>>
    /\ OrchFrame

\* as_completed is exhausted, the executor is left: "Batch processing complete."
PP_BatchFinish ==
    /\ entry = "process_path" /\ orch = "collecting"
    /\ collected = found
    /\ olog' = olog \cup {"Batch processing complete"}
    /\ orch' = "done"
    /\ UNCHANGED <<outputKind, found, collected, unit, raised>>
    /\ OrchFrame

\* Single-file branch: the one call of core.process_image begins.
PP_SingleStart ==
    /\ entry = "process_path" /\ orch = "invoked" /\ ~input.isdir
    /\ found' = input.files
    /\ olog' = olog \cup {"Processing single file"}
    /\ unit' = [f \in FileUniverse |->
                  IF f \in input.files
                  THEN [IdleUnit EXCEPT !.pc = "Imread",
                                        !.path = FinalOutputPath(f, outputKind)]
                  ELSE unit[f]]
    /\ orch' = "single"
    /\ UNCHANGED <<outputKind, collected, raised>>
    /\ OrchFrame

\* The call returned, or raised into the caller of process_path.
PP_SingleFinish ==
    /\ entry = "process_path" /\ orch = "single"
    /\ \A f \in found : Finished(f)
    /\ IF \A f \in found : unit[f].pc = "Done"
       THEN /\ olog' = olog \cup {"Single file processing complete"}
            /\ orch' = "done"
            /\ UNCHANGED raised
       ELSE /\ olog' = olog
            /\ orch' = "raised"
            /\ raised' = unit[CHOOSE f \in found : TRUE].err
    /\ collected' = found
    /\ UNCHANGED <<outputKind, found, unit>>
    /\ OrchFrame

(***************************************************************************)
(* cli.main                                                                *)
(***************************************************************************)
\* click parses the options before main runs: --log-space is a Choice of
\* the keys of LOG_TO_WORKING_SPACE.
Main_Parse ==
    /\ entry = "main" /\ orch = "invoked"
    /\ orch' = IF LOG_TO_WORKING_SPACE(cfg.log_space) = "" THEN "raised" ELSE "parsed"
    /\ raised' = IF LOG_TO_WORKING_SPACE(cfg.log_space) = ""
                 THEN "BadParameter: log-space" ELSE raised
    /\ UNCHANGED <<outputKind, found, collected, olog, unit>>
    /\ OrchFrame

\* Batch branch up to the loop: create a missing output directory, refuse an
\* output path that is not a directory, glob the supported files, and return
\* when there is none.
Main_BatchStart ==
    /\ entry = "main" /\ orch = "parsed" /\ input.isdir
    /\ IF outputKind = "file"
       THEN /\ orch' = "raised"
            /\ raised' = "UsageError: OUTPUT_PATH must be a directory"
            /\ olog' = olog \cup {"Starting batch processing"}
            /\ UNCHANGED <<outputKind, found>>
       ELSE /\ outputKind' = "dir"
            /\ found' = GlobMatches(input.files)
            /\ olog' = olog \cup {"Starting batch processing"}
                    \cup (IF outputKind = "absent" THEN {"Created output directory"} ELSE {})
                    \cup (IF GlobMatches(input.files) = {}
                          THEN {"No supported RAW files found"}
                          ELSE {"Found RAW files"})
            /\ orch' = IF GlobMatches(input.files) = {} THEN "returned" ELSE "looping"
            /\ UNCHANGED raised
    /\ UNCHANGED <<collected, unit>>
    /\ OrchFrame

\* `for raw_path in raw_files`: the next file's process_image call begins,
\* after the previous one's try statement is over.
Main_Take(u) ==
    /\ entry = "main" /\ orch = "looping"
    /\ u \in found /\ unit[u].pc = "idle"
    /\ \A f \in found : unit[f].pc # "idle" => f \in collected
    /\ unit' = [unit EXCEPT ![u].pc = "Imread", ![u].path = OutputPath(u)]
    /\ UNCHANGED <<outputKind, orch, found, collected, olog, raised>>
    /\ OrchFrame

\* The try statement ends: the call returned, or `except Exception` printed
\* "Error processing <raw_path>" and the loop continues.
Main_Handle(u) ==
    /\ entry = "main" /\ orch = "looping"
    /\ u \in found \ collected /\ Finished(u)
    /\ collected' = collected \cup {u}
    /\ unit' = [unit EXCEPT ![u].reported =
                   IF unit[u].pc = "Failed" THEN @ + 1 ELSE @]
    /\ UNCHANGED <<outputKind, orch, found, olog, raised>>
    /\ OrchFrame

\* The loop is over: "Batch processing complete."
Main_BatchFinish ==
    /\ entry = "main" /\ orch = "looping"
    /\ collected = found
    /\ olog' = olog \cup {"Batch processing complete"}
    /\ orch' = "done"
    /\ UNCHANGED <<outputKind, found, collected, unit, raised>>
    /\ OrchFrame

\* Single-file branch of main.
Main_SingleStart ==
    /\ entry = "main" /\ orch = "parsed" /\ ~input.isdir
    /\ found' = input.files
    /\ unit' = [f \in FileUniverse |->
                  IF f \in input.files
                  THEN [IdleUnit EXCEPT !.pc = "Imread",
                                        !.path = FinalOutputPath(f, outputKind)]
                  ELSE unit[f]]
    /\ orch' = "single"
    /\ UNCHANGED <<outputKind, collected, olog, raised>>
    /\ OrchFrame

Main_SingleFinish ==
    /\ entry = "main" /\ orch = "single"
    /\ \A f \in found : Finished(f)
    /\ orch' = IF \A f \in found : unit[f].pc = "Done" THEN "done" ELSE "raised"
    /\ raised' = IF \A f \in found : unit[f].pc = "Done"
                 THEN raised ELSE unit[CHOOSE f \in found : TRUE].err
    /\ collected' = found
    /\ UNCHANGED <<outputKind, found, olog, unit>>
    /\ OrchFrame

(***************************************************************************)
(* Configurations and initial states.                                      *)
(***************************************************************************)
LogSpaces == {"S-Log3.Cine", "Bogus-Log"}

\* Every configuration, tried on a single input file.
SingleConfigs ==
    [log_space : LogSpaces,
     lut_path : {""} \cup LutPaths,
     exposure : {<<>>, <<0>>, <<1>>, <<-1>>, <<6>>},
     lens_correct : BOOLEAN,
     metering_mode : METERING_MODES,
     jobs : {1}]

\* The configurations tried on a directory.
BatchConfigs ==
    [log_space : LogSpaces,
     lut_path : {""},
     exposure : {<<>>},
     lens_correct : BOOLEAN,
     metering_mode : {"hybrid"},
     jobs : 1..MaxJobs]

DirContents == {d \in SUBSET FileUniverse : Cardinality(d) <= MaxFiles}

MeterOff ==
    [pc |-> "off", mode |-> "hybrid", gain |-> 0, base |-> 0,
     stats |-> [avg_lum |-> 0, weighted_avg_lum |-> 0, p995 |-> 0, p99 |-> 0]]

Init ==
    /\ entry \in {"process_path", "main"}
    /\ \/ /\ cfg \in SingleConfigs
          /\ input \in [isdir : {FALSE}, files : {{f} : f \in FileUniverse}]
          /\ outputKind \in {"dir", "file"}
       \/ /\ cfg \in BatchConfigs
          /\ input \in [isdir : {TRUE}, files : DirContents]
          /\ outputKind \in {"dir", "file", "absent"}
    /\ orch = "invoked"
    /\ found = {}
    /\ collected = {}
    /\ olog = {}
    /\ raised = "none"
    /\ unit = [f \in FileUniverse |-> IdleUnit]
    /\ meter = MeterOff

Next ==
    \/ PP_BatchStart
    \/ \E u \in FileUniverse : PP_WorkerTake(u)
    \/ \E u \in FileUniverse : PP_Collect(u)
    \/ PP_BatchFinish
    \/ PP_SingleStart
    \/ PP_SingleFinish
    \/ Main_Parse
    \/ Main_BatchStart
    \/ \E u \in FileUniverse : Main_Take(u)
    \/ \E u \in FileUniverse : Main_Handle(u)
    \/ Main_BatchFinish
    \/ Main_SingleStart
    \/ Main_SingleFinish
    \/ \E u \in FileUniverse : PipelineStep(u)

Spec == Init /\ [][Next]_vars

\* The operating system runs every process that can run: the program does
\* not stop while a step is possible.
FairSpec == Init /\ [][Next]_vars /\ WF_vars(Next)

(***************************************************************************)
(* A metering function called on its own, on an image whose statistics are *)
(* drawn from StatValues.                                                  *)
(***************************************************************************)
\* 0, the 1e-6 and 1e-4 thresholds and their neighbours, mid-gray, white,
\* and values above white.
StatValues == {0, 1, 2, 99, 100, 1800, 180000, 1000000, 4000000}

\* exp(mean(log(luminance + 1e-6))) of a non-negative image is at least 1e-6.
GeometricMeans == {v \in StatValues : v >= EPS}

MeterFrame ==
    UNCHANGED <<entry, cfg, input, outputKind, orch, found, collected, olog, raised,
                unit>>

Meter_average ==
    /\ meter.pc = "call" /\ meter.mode = "average"
    /\ meter' = [meter EXCEPT !.pc = "returned",
                     !.base = auto_expose_linear_base_gain(meter.stats.avg_lum),
                     !.gain = auto_expose_linear_gain(meter.stats.avg_lum)]
    /\ MeterFrame

Meter_center_weighted ==
    /\ meter.pc = "call" /\ meter.mode = "center-weighted"
    /\ meter' = [meter EXCEPT !.pc = "returned",
                     !.gain = auto_expose_center_weighted_gain(meter.stats.weighted_avg_lum)]
    /\ MeterFrame

Meter_highlight_safe ==
    /\ meter.pc = "call" /\ meter.mode = "highlight-safe"
    /\ meter' = [meter EXCEPT !.pc = "returned",
                     !.gain = auto_expose_highlight_safe_gain(meter.stats.p995)]
    /\ MeterFrame

Meter_hybrid ==
    /\ meter.pc = "call" /\ meter.mode = "hybrid"
    /\ meter' = [meter EXCEPT !.pc = "returned",
                     !.base = hybrid_base_gain(meter.stats.avg_lum),
                     !.gain = auto_expose_hybrid_gain(meter.stats.avg_lum, meter.stats.p99)]
    /\ MeterFrame

MeterInit ==
    /\ entry = "none"
    /\ cfg = [log_space |-> "S-Log3.Cine", lut_path |-> "", exposure |-> <<>>,
              lens_correct |-> FALSE, metering_mode |-> "hybrid", jobs |-> 1]
    /\ input = [isdir |-> FALSE, files |-> {}]
    /\ outputKind = "absent"
    /\ orch = "off"
    /\ found = {}
    /\ collected = {}
    /\ olog = {}
    /\ raised = "none"
    /\ unit = [f \in FileUniverse |-> IdleUnit]
    /\ meter \in [pc : {"call"}, mode : METERING_MODES, gain : {0}, base : {0},
                   stats : [avg_lum : GeometricMeans, weighted_avg_lum : StatValues,
                            p995 : StatValues, p99 : StatValues]]

MeterNext ==
    \/ Meter_average
    \/ Meter_center_weighted
    \/ Meter_highlight_safe
    \/ Meter_hybrid

MeterSpec == MeterInit /\ [][MeterNext]_vars

(***************************************************************************)
(* Properties.                                                             *)
(***************************************************************************)
\* The run of unit u has entered the step `stage`.
Entered(u, stage) == \E i \in DOMAIN unit[u].hist : unit[u].hist[i] = stage

IsPrefix(a, b) == Len(a) <= Len(b) /\ \A i \in DOMAIN a : a[i] = b[i]

\* The directory run has work units.
BatchWithUnits == input.isdir /\ found # {}

\* C1: in batch mode, whatever units fail, the batch run itself never raises:
\* each failing unit's exception is reported exactly once under that unit's
\* name when its result is taken, no unit is skipped, every unit that did not
\* raise reached Done, and the run ends with "Batch processing complete".
C1_BatchNeverRaises ==
    BatchWithUnits =>
        /\ orch # "raised" /\ raised = "none"
        /\ \A u \in found :
              unit[u].reported =
                  IF u \in collected /\ unit[u].pc = "Failed" THEN 1 ELSE 0
        /\ \A u \in collected : Finished(u)
        /\ orch = "done" =>
              /\ collected = found
              /\ "Batch processing complete" \in olog
              /\ \A u \in found : unit[u].err = "none" => unit[u].pc = "Done"

\* A finished batch in which one unit failed and was reported and another
\* reached Done.
C1_Witness ==
    /\ BatchWithUnits /\ orch = "done"
    /\ \E u, v \in found :
          /\ unit[u].pc = "Failed" /\ unit[u].reported = 1
          /\ unit[v].pc = "Done"

\* C2: with an unknown log-space name, no unit ever enters Decode,
\* ExtractMetadata, Expose, LensCorrect or Boost, and the error ends the
\* invocation instead of being one unit's failure.
C2_UnknownLogSpaceRaisedFirst ==
    LOG_TO_WORKING_SPACE(cfg.log_space) = "" =>
        /\ \A u \in FileUniverse :
              \A st \in {"Decode", "ExtractMetadata", "Expose", "LensCorrect", "Boost"} :
                 ~Entered(u, st)
        /\ orch \notin {"done", "returned"}

\* C3: when the LUT step fails, the failure is logged, the image that goes on
\* to Encode is the image that entered the LUT step, and the run reaches
\* Encode.
C3_LutFailureLeavesImage ==
    \A u \in FileUniverse :
        (Entered(u, "LUT") /\ "lut_error" \in unit[u].logs) =>
            /\ unit[u].img = unit[u].lutIn
            /\ (unit[u].pc \in {"Encode", "Done"} \/ Entered(u, "Encode"))

\* C4: with a manual exposure (0 included) no metering function is invoked
\* and the decoded image is scaled by the one gain 2^stops; without it,
\* exactly the metering function of the metering mode is invoked.
C4_ManualExposureWins ==
    \A u \in FileUniverse :
        Entered(u, "Expose") =>
            IF cfg.exposure # <<>>
            THEN /\ unit[u].metered = {}
                 /\ cfg.exposure[1] = 0  => unit[u].gain = GAIN_ONE
                 /\ cfg.exposure[1] = 1  => unit[u].gain = 2 * GAIN_ONE
                 /\ cfg.exposure[1] = -1 => 2 * unit[u].gain = GAIN_ONE
                 /\ unit[u].exposed =
                       [i \in DOMAIN DecodedImage(u.content) |->
                           MulGain(DecodedImage(u.content)[i], unit[u].gain)]
                 /\ cfg.exposure[1] = 0 => unit[u].exposed = DecodedImage(u.content)
            ELSE /\ cfg.metering_mode = "average" =>
                       unit[u].metered = {"auto_expose_linear"}
                 /\ cfg.metering_mode = "center-weighted" =>
                       unit[u].metered = {"auto_expose_center_weighted"}
                 /\ cfg.metering_mode = "highlight-safe" =>
                       unit[u].metered = {"auto_expose_highlight_safe"}
                 /\ cfg.metering_mode = "hybrid" =>
                       unit[u].metered = {"auto_expose_hybrid"}

\* A run with exposure 0 on an image that metering would have scaled.
C4_Witness ==
    \E u \in FileUniverse :
        /\ Entered(u, "Expose") /\ cfg.exposure = <<0>>
        /\ cfg.metering_mode = "average" /\ u.content = "gray"
        /\ unit[u].exposed = <<180000, 180000>>

\* C5: lens correction never fails the run: disabled, the step is not
\* entered; enabled, the run leaves the step (with the image unchanged when
\* metadata is missing) and goes on to Boost.
C5_LensCorrectionNeverFails ==
    \A u \in FileUniverse :
        /\ ~cfg.lens_correct => ~Entered(u, "LensCorrect")
        /\ Entered(u, "LensCorrect") =>
              /\ unit[u].err # "TypeError"
              /\ unit[u].pc # "LensCorrect" =>
                    (Entered(u, "Boost") \/ unit[u].pc = "Boost")

\* The steps of process_image in the order the code runs them, for a
\* configuration.
CodeOrder(c) ==
    <<"Imread", "ExtractMetadata", "Decode", "Expose">>
    \o (IF c.lens_correct THEN <<"LensCorrect">> ELSE <<>>)
    \o <<"Boost", "LogSpaceLookup", "GamutTransform", "CurveEncode">>
    \o (IF c.lut_path # "" THEN <<"LUT">> ELSE <<>>)
    \o <<"Encode">>

\* The stages in the order the specification lists them.
ClaimedOrder(c) ==
    <<"Decode", "ExtractMetadata", "Expose">>
    \o (IF c.lens_correct THEN <<"LensCorrect">> ELSE <<>>)
    \o <<"Boost", "GamutTransform", "CurveEncode">>
    \o (IF c.lut_path # "" THEN <<"LUT">> ELSE <<>>)
    \o <<"Encode">>

IsClaimedStage(st) ==
    st \in {"Decode", "ExtractMetadata", "Expose", "LensCorrect", "Boost",
            "GamutTransform", "CurveEncode", "LUT", "Encode"}

\* C6 as claimed: the stages a run has entered are, in order, a prefix of
\* Decode, ExtractMetadata, Expose, LensCorrect, Boost, GamutTransform,
\* CurveEncode, LUT, Encode (metadata extraction after decode).
C6_ClaimedStageOrder ==
    \A u \in FileUniverse :
        IsPrefix(SelectSeq(unit[u].hist, IsClaimedStage), ClaimedOrder(cfg))

\* C6 amended: the steps a run has entered are, in order, a prefix of: open
\* the RAW file, ExtractMetadata, Decode, Expose, LensCorrect (if enabled),
\* Boost, log-space lookup, GamutTransform, CurveEncode, LUT (if configured),
\* Encode; a run that is Done entered them all; a run that raised stopped in
\* the step that raised, so Encode is not entered after a failure.
C6_StageOrder ==
    \A u \in FileUniverse :
        /\ IsPrefix(unit[u].hist, CodeOrder(cfg))
        /\ unit[u].pc = "Done" => unit[u].hist = CodeOrder(cfg)
        /\ unit[u].err # "none" => unit[u].pc = "Failed"
        /\ unit[u].pc \notin {"idle", "queued", "Failed", "Done"} =>
              IsPrefix(Append(unit[u].hist, unit[u].pc), CodeOrder(cfg))

\* A run that went through every step, the LUT included, to Done.
C6_Witness ==
    \E u \in FileUniverse :
        unit[u].pc = "Done" /\ Entered(u, "LUT") /\ Len(unit[u].hist) = 10

\* C7: a directory without a supported file makes the entry point end with
\* an error, and no work unit is started.
C7_EmptyDiscoveryIsError ==
    (/\ input.isdir
     /\ ListdirMatches(input.files) = {}
     /\ orch \in {"done", "returned", "raised"}) =>
        /\ orch = "raised"
        /\ found = {}
        /\ \A u \in FileUniverse : unit[u].pc = "idle"

OutputPathErrors ==
    {"ValueError: the output path must be a directory",
     "UsageError: OUTPUT_PATH must be a directory"}

\* C8: a directory run is refused for its output path only when that path
\* exists and is not a directory, and then before any unit is submitted; an
\* output path that does not exist is created and the batch goes on.
C8_CreatableOutputAccepted ==
    input.isdir =>
        /\ raised \in OutputPathErrors =>
              /\ outputKind = "file"
              /\ found = {}
              /\ \A u \in FileUniverse : unit[u].pc = "idle"
        /\ orch \in {"collecting", "looping", "done"} => outputKind = "dir"

\* C9: the gain a metering function returns is positive and inside the
\* mode's bounds: average [1.0, 50.0], center-weighted and hybrid
\* [0.1, 100.0], highlight-safe 0.9 / p99.5, or 1.0 when p99.5 < 1e-6.
C9_GainBounded ==
    meter.pc = "returned" =>
        /\ meter.gain > 0
        /\ meter.mode = "average" =>
              (meter.gain >= 100 /\ meter.gain <= 5000)
        /\ meter.mode \in {"center-weighted", "hybrid"} =>
              (meter.gain >= 10 /\ meter.gain <= 10000)
        /\ meter.mode = "highlight-safe" =>
              IF meter.stats.p995 < 1
              THEN meter.gain = 100
              ELSE /\ meter.gain * meter.stats.p995 <= 90000000
                   /\ (meter.gain + 1) * meter.stats.p995 > 90000000

\* Every mode metered the all-zero image (geometric mean 1e-6, everything
\* else 0); here the average mode, which returned gain 1.0.
C9_Witness ==
    /\ meter.pc = "returned" /\ meter.mode = "average"
    /\ meter.stats = [avg_lum |-> 1, weighted_avg_lum |-> 0, p995 |-> 0, p99 |-> 0]
    /\ meter.gain = 100

\* C11: hybrid's base gain (before the highlight override and the final
\* clamp) is the unclamped gain auto_expose_linear derives from the same
\* geometric mean, very dark images (mean below 0.0001) included.
C11_HybridBaseIsAverageGain ==
    (meter.pc = "returned" /\ meter.mode = "hybrid") =>
        meter.base = auto_expose_linear_base_gain(meter.stats.avg_lum)

\* C12: in a batch run any two distinct discovered files are given
\* different output paths, so no two runs write the same file.
C12_OutputPathsDistinct ==
    input.isdir =>
        \A u, v \in found :
            (u # v /\ unit[u].path # <<>> /\ unit[v].path # <<>>) =>
                unit[u].path # unit[v].path

\* C13: every sample handed to the 16-bit encoder is inside [0, 1], with a
\* LUT applied, with no LUT configured, and after a LUT failure.
C13_EncoderInputInUnitRange ==
    \A u \in FileUniverse :
        unit[u].pc = "Encode" =>
            \A i \in DOMAIN unit[u].img :
                unit[u].img[i] >= 0 /\ unit[u].img[i] <= ONE

\* The units of a pool run other than the one whose call never returns.
Submitted == entry = "process_path" /\ orch = "collecting"
OthersReported == \A u \in found : u.content # "hang" => u \in collected

\* C10 as claimed: for every pool size, 1 included, once the units are
\* submitted every unit other than a hung one is eventually started,
\* finished and its result taken.
C10_HungBlocksOnlyItself == Submitted ~> OthersReported

\* C10 amended: the same for every pool size of at least 2.
C10_HungBlocksOnlyItself_TwoWorkers ==
    (Submitted /\ cfg.jobs >= 2) ~> OthersReported

\* A pool of two with the hung call in one worker and another unit's
\* result already taken.
C10_Witness ==
    /\ Submitted /\ cfg.jobs >= 2
    /\ \E h, u \in found :
          /\ h.content = "hang" /\ unit[h].pc = "Decode"
          /\ u # h /\ u \in collected
====
